---- MODULE Spec2Model ----
(***************************************************************************)
(* The conversion form of frontend/src/App.tsx as a state machine.         *)
(*                                                                         *)
(* The state is the component's React state (one variable per useState),   *)
(* the value of the file <input>, and the handleConvert invocations that   *)
(* are suspended at their await (the requests in flight).  Every event     *)
(* handler is one action: React runs a handler to completion and commits   *)
(* its batched state updates before the next event is dispatched, so a     *)
(* handler always reads the state of the last commit.  The part of         *)
(* handleConvert after the await is a second action, Settle, that runs     *)
(* with the values its invocation captured when the button was clicked.    *)
(*                                                                         *)
(* A JavaScript string is a sequence of symbols (characters, or a whole    *)
(* message where its characters never matter).  null, undefined, and the   *)
(* values that share a position with them are tagged records.              *)
(***************************************************************************)
EXTENDS Integers, Sequences, FiniteSets, TLC

VARIABLES
    mode, file, text,
    root, delimiter, indent, lengthMarker, coerce,
    pretty, ensureAscii,
    loading, output, outName, err,
    fileInputValue,   \* fileInputRef.current.value
    pending,          \* handleConvert invocations suspended at the await
    lastClick,        \* history: which of Convert / Reset was clicked last
    edits             \* history: number of input events so far

inputs == <<mode, file, text, root, delimiter, indent, lengthMarker, coerce,
            pretty, ensureAscii, fileInputValue>>
result == <<output, outName, err>>
vars == <<mode, file, text, root, delimiter, indent, lengthMarker, coerce,
          pretty, ensureAscii, loading, output, outName, err,
          fileInputValue, pending, lastClick, edits>>

---------------------------------------------------------------------------
(* Bounds of the model. *)

MaxEdits == 3       \* input events in one run

(* Program constants. *)

DefaultIndent == 2
MinIndent == 0
MaxIndent == 8

---------------------------------------------------------------------------
(* Values. *)

NULL == [type |-> "null"]
UNDEFINED == [type |-> "undefined"]
S(s) == [type |-> "string", value |-> s]
File(name) == [type |-> "File", name |-> name]

\* JavaScript truthiness of null, undefined, a string or an object
Truthy(v) ==
    CASE v.type = "string" -> v.value # <<>>
      [] v.type = "File" -> TRUE
      [] OTHER -> FALSE

\* a || b
Or(a, b) == IF Truthy(a) THEN a ELSE b

Modes == {"json2toon", "toon2json"}
Delimiters == {"comma", "tab", "pipe"}

WhiteSpace == {" ", "\t", "\n"}

RECURSIVE TrimStart(_)
TrimStart(s) ==
    IF s # <<>> /\ Head(s) \in WhiteSpace THEN TrimStart(Tail(s)) ELSE s

RECURSIVE TrimEnd(_)
TrimEnd(s) ==
    IF s # <<>> /\ s[Len(s)] \in WhiteSpace
    THEN TrimEnd(SubSeq(s, 1, Len(s) - 1))
    ELSE s

\* String.prototype.trim
Trim(s) == TrimEnd(TrimStart(s))

Digits == <<"0", "1", "2", "3", "4", "5", "6", "7", "8", "9">>

\* String(n) for an integer n >= 0
RECURSIVE NumberToString(_)
NumberToString(n) ==
    IF n < 10 THEN <<Digits[n + 1]>>
    ELSE Append(NumberToString(n \div 10), Digits[(n % 10) + 1])

DigitValue(c) == CHOOSE d \in 0..9 : Digits[d + 1] = c

\* parseInt(s, 10) for a string of decimal digits
RECURSIVE ParseInt(_)
ParseInt(s) ==
    IF Len(s) = 1 THEN DigitValue(s[1])
    ELSE 10 * ParseInt(SubSeq(s, 1, Len(s) - 1)) + DigitValue(s[Len(s)])

---------------------------------------------------------------------------
(* What the user and the server can supply. *)

\* what the user types into the text area and the root field: nothing,
\* white space only, and content with white space around it
TextInputs == {<<>>, <<" ">>, <<" ", "a", "\n">>}

\* names of the files the user selects: without an extension, with one,
\* with two, with a dot first and with a dot last
FileNames ==
    {<<"a">>, <<"a", ".", "b">>, <<"a", ".", "b", ".", "c">>,
     <<".", "a">>, <<"a", ".">>}

\* e.target.files after a change of the file input: no file or one file
FileLists == {<<>>} \cup {<<File(n)>> : n \in FileNames}

\* where the user lets go of the range input (min 0, max 8, step 1)
SliderStops == {MinIndent, DefaultIndent, MaxIndent}
RangeValues == {NumberToString(n) : n \in SliderStops}

\* the JSON bodies the server can answer with (ConvertResponse)
Responses ==
    [ok : {TRUE},
     filename : {UNDEFINED, S(<<>>), S(<<"r", ".", "x">>)},
     content : {UNDEFINED, S(<<>>), S(<<"c">>)},
     error : {UNDEFINED}]
    \cup
    [ok : {FALSE},
     filename : {UNDEFINED},
     content : {UNDEFINED, S(<<"c">>)},
     error : {UNDEFINED, S(<<>>), S(<<"e">>)}]

Error(name, message) == [type |-> "Error", name |-> name, message |-> message]

\* what fetch or res.json() can reject with, and the TypeError of reading
\* .ok of a body that parsed to null
Rejections ==
    {Error(<<"TypeError">>, <<"Failed to fetch">>),
     Error(<<"SyntaxError">>, <<"Unexpected token">>),
     Error(<<"TypeError">>, <<>>)}

Outcomes ==
    {[kind |-> "json", data |-> d, e |-> NULL] : d \in Responses}
    \cup {[kind |-> "reject", data |-> NULL, e |-> e] : e \in Rejections}

---------------------------------------------------------------------------
(* The values derived from the state at each render. *)

ToonExt == <<".", "t", "o", "o", "n">>
JsonExt == <<".", "j", "s", "o", "n">>

TargetExt(m) == IF m = "json2toon" THEN ToonExt ELSE JsonExt

targetExt == TargetExt(mode)

\* the options panel the form shows
PanelShown(m) == mode = m

\* the Convert button is enabled
ConvertEnabledAlways == TRUE
ConvertEnabled == ~loading

---------------------------------------------------------------------------
(* handleConvert up to its await. *)

MsgNoInput == <<"Please upload a file or paste some content first.">>
MsgFailed == <<"Conversion failed">>

NoInputUntrimmed == ~Truthy(file) /\ ~Truthy(S(text))
NoInput == ~Truthy(file) /\ ~Truthy(S(Trim(text)))

InputEntriesBoth ==
    (IF Truthy(file) THEN << <<"file", file>> >> ELSE <<>>)
    \o << <<"text", S(text)>> >>
InputEntries ==
    IF Truthy(file) THEN << <<"file", file>> >> ELSE << <<"text", S(text)>> >>

OptionEntriesUntrimmedRoot ==
    IF mode = "json2toon"
    THEN << <<"delimiter", S(<<delimiter>>)>>,
            <<"indent", S(NumberToString(indent))>> >>
         \o (IF Truthy(S(root)) THEN << <<"root", S(Trim(root))>> >> ELSE <<>>)
         \o (IF lengthMarker THEN << <<"length_marker", S(<<"1">>)>> >> ELSE <<>>)
         \o (IF coerce THEN << <<"coerce", S(<<"1">>)>> >> ELSE <<>>)
    ELSE (IF pretty THEN << <<"pretty", S(<<"1">>)>> >> ELSE <<>>)
         \o (IF ensureAscii THEN << <<"ensure_ascii", S(<<"1">>)>> >> ELSE <<>>)
OptionEntries ==
    IF mode = "json2toon"
    THEN << <<"delimiter", S(<<delimiter>>)>>,
            <<"indent", S(NumberToString(indent))>> >>
         \o (IF Truthy(S(Trim(root))) THEN << <<"root", S(Trim(root))>> >> ELSE <<>>)
         \o (IF lengthMarker THEN << <<"length_marker", S(<<"1">>)>> >> ELSE <<>>)
         \o (IF coerce THEN << <<"coerce", S(<<"1">>)>> >> ELSE <<>>)
    ELSE (IF pretty THEN << <<"pretty", S(<<"1">>)>> >> ELSE <<>>)
         \o (IF ensureAscii THEN << <<"ensure_ascii", S(<<"1">>)>> >> ELSE <<>>)

\* the FormData handed to fetch: its entries in the order of the appends
BuildForm == << <<"mode", S(<<mode>>)>> >> \o InputEntries \o OptionEntries

\* what the rest of the invocation reads after the await
Closure == [form |-> BuildForm, file |-> file, targetExt |-> targetExt]

ClearOutputKept == UNCHANGED <<output, outName>>
ClearOutput == output' = <<>> /\ outName' = <<>>

handleConvert ==
    /\ ConvertEnabled
    /\ ClearOutput
    /\ IF NoInput
       THEN /\ err' = S(MsgNoInput)
            /\ UNCHANGED <<loading, pending>>
       ELSE /\ err' = NULL
            /\ loading' = TRUE
            /\ pending' = Append(pending, Closure)
    /\ lastClick' = "convert"
    /\ UNCHANGED <<inputs, edits>>

---------------------------------------------------------------------------
(* handleConvert after its await. *)

\* whether pattern (\.[^.]+)?$ matches name at offset i (counted from 0)
MatchesAt(name, i) ==
    \/ i = Len(name)
    \/ /\ i + 1 < Len(name)
       /\ name[i + 1] = "."
       /\ \A k \in (i + 2)..Len(name) : name[k] # "."

\* name.replace(/(\.[^.]+)?$/, ext): the leftmost match, which runs to the
\* end of the name, is replaced
ReplaceExt(name, ext) ==
    LET i == CHOOSE j \in 0..Len(name) :
                 /\ MatchesAt(name, j)
                 /\ \A k \in 0..(j - 1) : ~MatchesAt(name, k)
    IN  SubSeq(name, 1, i) \o ext

\* the extension the fallback name gets: the targetExt the invocation captured
FallbackExtOfRender(p) == targetExt
FallbackExt(p) == p.targetExt

FallbackName(p) ==
    IF Truthy(p.file)
    THEN ReplaceExt(p.file.name, FallbackExt(p))
    ELSE <<"output">> \o FallbackExt(p)

\* Error.prototype.toString
ErrorToString(e) ==
    IF e.message = <<>> THEN e.name ELSE e.name \o <<": ">> \o e.message

\* e?.message || String(e)
ErrorText(e) == Or(S(e.message), S(ErrorToString(e))).value

\* what the try block throws on outcome o, NULL when it completes
ThrownNoDefault(o) ==
    IF o.kind = "reject" THEN o.e
    ELSE IF ~o.data.ok
         THEN Error(<<"Error">>, Or(o.data.error, S(<<>>)).value)
         ELSE NULL
Thrown(o) ==
    IF o.kind = "reject" THEN o.e
    ELSE IF ~o.data.ok
         THEN Error(<<"Error">>, Or(o.data.error, S(MsgFailed)).value)
         ELSE NULL

Remove(seq, i) == SubSeq(seq, 1, i - 1) \o SubSeq(seq, i + 1, Len(seq))

SetLoadingOnSuccessOnly(o) ==
    IF Thrown(o) = NULL THEN loading' = FALSE ELSE UNCHANGED loading
SetLoadingFinally(o) == loading' = FALSE

\* invocation i resumes with outcome o of its fetch
Resume(i, o) ==
    /\ i \in DOMAIN pending
    /\ LET p == pending[i]
           e == Thrown(o)
       IN  IF e = NULL
           THEN /\ output' = Or(o.data.content, S(<<>>)).value
                /\ outName' = Or(o.data.filename, S(FallbackName(p))).value
                /\ UNCHANGED err
           ELSE /\ err' = S(ErrorText(e))
                /\ UNCHANGED <<output, outName>>
    /\ SetLoadingFinally(o)
    /\ pending' = Remove(pending, i)
    /\ UNCHANGED <<inputs, lastClick, edits>>

Settle == \E i \in DOMAIN pending : \E o \in Outcomes : Resume(i, o)

---------------------------------------------------------------------------
(* The other handlers. *)

handleResetKeepsOutput ==
    /\ file' = NULL
    /\ text' = <<>>
    /\ outName' = <<>>
    /\ err' = NULL
    /\ root' = <<>>
    /\ delimiter' = "comma"
    /\ indent' = DefaultIndent
    /\ lengthMarker' = FALSE
    /\ coerce' = FALSE
    /\ pretty' = TRUE
    /\ ensureAscii' = FALSE
    /\ fileInputValue' = <<>>
    /\ lastClick' = "reset"
    /\ UNCHANGED <<output, mode, loading, pending, edits>>
handleReset ==
    /\ file' = NULL
    /\ text' = <<>>
    /\ output' = <<>>
    /\ outName' = <<>>
    /\ err' = NULL
    /\ root' = <<>>
    /\ delimiter' = "comma"
    /\ indent' = DefaultIndent
    /\ lengthMarker' = FALSE
    /\ coerce' = FALSE
    /\ pretty' = TRUE
    /\ ensureAscii' = FALSE
    /\ fileInputValue' = <<>>
    /\ lastClick' = "reset"
    /\ UNCHANGED <<mode, loading, pending, edits>>

\* an input event: the user changes one field of the form; a run holds at
\* most MaxEdits of them
Edit == edits < MaxEdits /\ edits' = edits + 1

setMode(m) ==
    /\ Edit
    /\ mode' = m
    /\ UNCHANGED <<file, text, root, delimiter, indent, lengthMarker, coerce,
                   pretty, ensureAscii, fileInputValue,
                   loading, result, pending, lastClick>>

\* the value a file input reports for its selection
FakePath(files) ==
    IF files = <<>> THEN <<>> ELSE <<"C:\\fakepath\\">> \o files[1].name

\* onChange of the file input: e.target.files?.[0] || null
setFile(files) ==
    /\ Edit
    /\ FakePath(files) # fileInputValue
    /\ file' = IF files = <<>> THEN NULL ELSE Or(files[1], NULL)
    /\ fileInputValue' = FakePath(files)
    /\ UNCHANGED <<mode, text, root, delimiter, indent, lengthMarker, coerce,
                   pretty, ensureAscii, loading, result, pending, lastClick>>

ClearFile ==
    /\ Edit
    /\ file' = NULL
    /\ fileInputValue' = <<>>
    /\ UNCHANGED <<mode, text, root, delimiter, indent, lengthMarker, coerce,
                   pretty, ensureAscii, loading, result, pending, lastClick>>

setText(t) ==
    /\ Edit
    /\ t # text
    /\ text' = t
    /\ UNCHANGED <<mode, file, root, delimiter, indent, lengthMarker, coerce,
                   pretty, ensureAscii, fileInputValue,
                   loading, result, pending, lastClick>>

setRoot(r) ==
    /\ Edit
    /\ PanelShown("json2toon")
    /\ r # root
    /\ root' = r
    /\ UNCHANGED <<mode, file, text, delimiter, indent, lengthMarker, coerce,
                   pretty, ensureAscii, fileInputValue,
                   loading, result, pending, lastClick>>

setDelimiter(d) ==
    /\ Edit
    /\ PanelShown("json2toon")
    /\ d # delimiter
    /\ delimiter' = d
    /\ UNCHANGED <<mode, file, text, root, indent, lengthMarker, coerce,
                   pretty, ensureAscii, fileInputValue,
                   loading, result, pending, lastClick>>

\* onChange of the range input: parseInt(e.target.value, 10)
setIndent(v) ==
    /\ Edit
    /\ PanelShown("json2toon")
    /\ v # NumberToString(indent)
    /\ indent' = ParseInt(v)
    /\ UNCHANGED <<mode, file, text, root, delimiter, lengthMarker, coerce,
                   pretty, ensureAscii, fileInputValue,
                   loading, result, pending, lastClick>>

\* onChange of a checkbox: e.target.checked is the opposite of what is shown
setLengthMarker ==
    /\ Edit
    /\ PanelShown("json2toon")
    /\ lengthMarker' = ~lengthMarker
    /\ UNCHANGED <<mode, file, text, root, delimiter, indent, coerce,
                   pretty, ensureAscii, fileInputValue,
                   loading, result, pending, lastClick>>

setCoerce ==
    /\ Edit
    /\ PanelShown("json2toon")
    /\ coerce' = ~coerce
    /\ UNCHANGED <<mode, file, text, root, delimiter, indent, lengthMarker,
                   pretty, ensureAscii, fileInputValue,
                   loading, result, pending, lastClick>>

setPretty ==
    /\ Edit
    /\ PanelShown("toon2json")
    /\ pretty' = ~pretty
    /\ UNCHANGED <<mode, file, text, root, delimiter, indent, lengthMarker,
                   coerce, ensureAscii, fileInputValue,
                   loading, result, pending, lastClick>>

setEnsureAscii ==
    /\ Edit
    /\ PanelShown("toon2json")
    /\ ensureAscii' = ~ensureAscii
    /\ UNCHANGED <<mode, file, text, root, delimiter, indent, lengthMarker,
                   coerce, pretty, fileInputValue,
                   loading, result, pending, lastClick>>

---------------------------------------------------------------------------
(* The specification. *)

Init ==
    /\ mode = "json2toon"
    /\ file = NULL
    /\ text = <<>>
    /\ root = <<>>
    /\ delimiter = "comma"
    /\ indent = DefaultIndent
    /\ lengthMarker = FALSE
    /\ coerce = FALSE
    /\ pretty = TRUE
    /\ ensureAscii = FALSE
    /\ loading = FALSE
    /\ output = <<>>
    /\ outName = <<>>
    /\ err = NULL
    /\ fileInputValue = <<>>
    /\ pending = <<>>
    /\ lastClick = "none"
    /\ edits = 0

Next ==
    \/ handleConvert
    \/ Settle
    \/ handleReset
    \/ \E m \in Modes : setMode(m)
    \/ \E files \in FileLists : setFile(files)
    \/ ClearFile
    \/ \E t \in TextInputs : setText(t)
    \/ \E r \in TextInputs : setRoot(r)
    \/ \E d \in Delimiters : setDelimiter(d)
    \/ \E v \in RangeValues : setIndent(v)
    \/ setLengthMarker
    \/ setCoerce
    \/ setPretty
    \/ setEnsureAscii

Spec == Init /\ [][Next]_vars

\* every fetch settles: it resolves or it rejects
FairSpec == Spec /\ WF_vars(Settle)

---------------------------------------------------------------------------
(* Properties. *)

\* FormData: the number of entries called name, and the first of them
Count(form, name) == Cardinality({i \in DOMAIN form : form[i][1] = name})
Has(form, name) == Count(form, name) > 0
Get(form, name) ==
    form[CHOOSE i \in DOMAIN form :
             /\ form[i][1] = name
             /\ \A j \in 1..(i - 1) : form[j][1] # name][2]

EndsWith(s, suffix) ==
    /\ Len(s) >= Len(suffix)
    /\ SubSeq(s, Len(s) - Len(suffix) + 1, Len(s)) = suffix

\* this step sends a request; the FormData of that request
Sent == Len(pending') = Len(pending) + 1
SentForm == pending'[Len(pending')].form

\* the mode a request was sent with
ModeOf(p) == Get(p.form, "mode").value[1]

Failed(o) == o.kind = "reject" \/ ~o.data.ok

\* C1: a Convert click with no file and an empty or white-space-only text
\* sends no request, sets err to a non-empty message, leaves output and
\* outName empty and does not set loading.
C1_RejectedLocally ==
    [][(handleConvert /\ file = NULL /\ Trim(text) = <<>>)
         => /\ pending' = pending
            /\ err' # NULL
            /\ err'.value # <<>>
            /\ output' = <<>>
            /\ outName' = <<>>
            /\ ~loading
            /\ ~loading']_vars

C1_Witness ==
    /\ lastClick = "convert"
    /\ err = S(MsgNoInput)
    /\ file = NULL
    /\ text = <<" ">>
    /\ edits = 1
    /\ pending = <<>>
    /\ ~loading

\* C2: every request carries exactly one of file and text: the selected
\* file when there is one (whatever the text), otherwise the pasted text.
C2_OneInputField ==
    [][Sent
         => /\ Count(SentForm, "file") + Count(SentForm, "text") = 1
            /\ file # NULL
                 => Has(SentForm, "file") /\ Get(SentForm, "file") = file
            /\ file = NULL
                 => Has(SentForm, "text") /\ Get(SentForm, "text") = S(text)]_vars

C2_Witness ==
    /\ Len(pending) = 1
    /\ Has(pending[1].form, "file")
    /\ ~Has(pending[1].form, "text")
    /\ pending[1].file = file
    /\ Trim(text) # <<>>

\* C3: a json2toon request carries delimiter and indent, root iff the
\* trimmed root is not empty, length_marker iff lengthMarker, coerce iff
\* coerce, and neither pretty nor ensure_ascii; a toon2json request carries
\* pretty iff pretty, ensure_ascii iff ensureAscii, and none of the five
\* json2toon options.
C3_OptionsOfMode ==
    [][Sent
         => /\ Get(SentForm, "mode") = S(<<mode>>)
            /\ mode = "json2toon"
                 => /\ Has(SentForm, "delimiter")
                    /\ Has(SentForm, "indent")
                    /\ Has(SentForm, "root") <=> Trim(root) # <<>>
                    /\ Has(SentForm, "length_marker") <=> lengthMarker
                    /\ Has(SentForm, "coerce") <=> coerce
                    /\ ~Has(SentForm, "pretty")
                    /\ ~Has(SentForm, "ensure_ascii")
            /\ mode = "toon2json"
                 => /\ Has(SentForm, "pretty") <=> pretty
                    /\ Has(SentForm, "ensure_ascii") <=> ensureAscii
                    /\ ~Has(SentForm, "delimiter")
                    /\ ~Has(SentForm, "indent")
                    /\ ~Has(SentForm, "root")
                    /\ ~Has(SentForm, "length_marker")
                    /\ ~Has(SentForm, "coerce")]_vars

C3_Witness ==
    /\ Len(pending) = 1
    /\ ModeOf(pending[1]) = "json2toon"
    /\ Has(pending[1].form, "root")
    /\ Has(pending[1].form, "length_marker")
    /\ ~Has(pending[1].form, "coerce")
    /\ edits = 3

\* C4: when a request is answered with ok = true, output becomes the
\* content of the response, err stays null and outName is not empty: the
\* filename of the response when it has one, otherwise a name that ends in
\* the extension of the mode the request was sent with.
C4_Success ==
    [][\A i \in DOMAIN pending : \A o \in Outcomes :
         (Resume(i, o) /\ ~Failed(o))
           => /\ output' = (IF o.data.content = UNDEFINED
                            THEN <<>> ELSE o.data.content.value)
              /\ err' = NULL
              /\ outName' # <<>>
              /\ IF Truthy(o.data.filename)
                 THEN outName' = o.data.filename.value
                 ELSE EndsWith(outName', TargetExt(ModeOf(pending[i])))]_vars

C4_Witness ==
    /\ output = <<"c">>
    /\ outName = <<"a", ".", "b">> \o ToonExt
    /\ mode = "toon2json"
    /\ err = NULL
    /\ ~loading
    /\ edits = 2

\* C5: when a request is answered with ok = false, or its fetch or the
\* parsing of its response fails, err becomes a non-empty message (the
\* error text of the response when that is not empty, otherwise a default)
\* and output and outName are left empty.
C5_Failure ==
    [][\A i \in DOMAIN pending : \A o \in Outcomes :
         (Resume(i, o) /\ Failed(o))
           => /\ err' # NULL
              /\ err'.value # <<>>
              /\ o.kind = "json"
                   => err'.value = (IF Truthy(o.data.error)
                                    THEN o.data.error.value ELSE MsgFailed)
              /\ output' = <<>>
              /\ outName' = <<>>]_vars

C5_Witness ==
    /\ err = S(MsgFailed)
    /\ output = <<>>
    /\ outName = <<>>
    /\ pending = <<>>
    /\ ~loading

\* C6: in every reachable state an error and converted content are not
\* shown together: err non-null implies output empty, and output non-empty
\* implies outName non-empty.
C6_ErrorOrContent ==
    /\ err # NULL => output = <<>>
    /\ output # <<>> => outName # <<>>

C6_Witness ==
    /\ output # <<>>
    /\ outName # <<>>
    /\ err = NULL
    /\ lastClick = "reset"

\* C7: loading is true exactly while a request is in flight, only sending
\* a request and the settling of one change it, and once true it
\* eventually becomes false again.
C7_Loading ==
    /\ [](loading <=> pending # <<>>)
    /\ [][loading' # loading => (handleConvert \/ Settle)]_vars
    /\ (loading ~> ~loading)

C7_Witness ==
    /\ loading
    /\ pending # <<>>
    /\ lastClick = "reset"

\* C8: at most one request is in flight: Convert is disabled while
\* loading, a request is only ever sent by a Convert click made when none
\* is in flight, and the settling of a request sends no other one.
C8_SingleFlight ==
    /\ [](Len(pending) <= 1)
    /\ [](loading => ~ENABLED handleConvert)
    /\ [][pending' # pending
            => \/ pending = <<>> /\ Len(pending') = 1 /\ handleConvert
               \/ Len(pending) = 1 /\ pending' = <<>> /\ Settle]_vars

C8_Witness ==
    /\ err = S(<<"Failed to fetch">>)
    /\ pending = <<>>
    /\ ~loading
    /\ lastClick = "convert"

\* C9: after a click on Reset, output and outName stay empty and err stays
\* null until the next click on Convert.
C9_ResetStays ==
    lastClick = "reset" => output = <<>> /\ outName = <<>> /\ err = NULL

\* C10: Reset puts file, text, output, outName, err and the seven options
\* back to their initial values and leaves mode and loading as they are; a
\* click on a mode button changes mode only.
C10_Frame ==
    [][/\ handleReset
            => /\ file' = NULL
               /\ text' = <<>>
               /\ output' = <<>>
               /\ outName' = <<>>
               /\ err' = NULL
               /\ root' = <<>>
               /\ delimiter' = "comma"
               /\ indent' = 2
               /\ lengthMarker' = FALSE
               /\ coerce' = FALSE
               /\ pretty' = TRUE
               /\ ensureAscii' = FALSE
               /\ mode' = mode
               /\ loading' = loading
       /\ \A m \in Modes :
            setMode(m)
              => /\ mode' = m
                 /\ UNCHANGED <<file, text, output, outName, err, root,
                                delimiter, indent, lengthMarker, coerce,
                                pretty, ensureAscii, loading>>]_vars

C10_Witness ==
    /\ lastClick = "reset"
    /\ mode = "toon2json"
    /\ loading
    /\ file = NULL
    /\ text = <<>>
    /\ pretty
    /\ edits = 3

====
